---- MODULE Spec2Model ----
(***************************************************************************)
(* Fluff (a Liar's Dice variant): the Bet ordering and fluff predicate,    *)
(* the Round state machine (NewRound -> Betting -> Called) and the Game    *)
(* state machine (InRound -> ... -> GameOver), modelled from src/bet.rs,   *)
(* src/game/round.rs, src/game/state.rs and src/game.rs.                   *)
(***************************************************************************)
EXTENDS Integers, Sequences, FiniteSets, TLC

\* ---------------------------------------------------------------- bounds
MaxPlayers == 3
MaxDice == 2
MaxRoll == 2
MaxBetCount == 2
MaxBetRoll == 2
MaxRounds == 2
MaxTotalDice == 4
GridMax == 3

\* The pool player identities are drawn from, in the order they join.
Names == <<"A", "B", "C", "D", "E">>

\* ------------------------------------------------------------ src/bet.rs
NONZERO_ONE == 1

Bet_new(count, roll) == [count |-> count, roll |-> roll]

Ok(v) == [tag |-> "Ok", val |-> v]

Err(e) == [tag |-> "Err", err |-> e]

Unit == "()"

const_cmp(a, b) ==
    IF a < b THEN "Less"
    ELSE IF a = b THEN "Equal"
    ELSE "Greater"

is_raised_from_roll_only(self, previous) ==
    CASE const_cmp(self.roll, previous.roll) = "Less" ->
            Err([kind |-> "SameCountLowerRoll", prev |-> previous.roll, new |-> self.roll])
      [] const_cmp(self.roll, previous.roll) = "Equal" ->
            Err([kind |-> "SameBet", bet |-> self])
      [] OTHER -> Ok(Unit)

is_raised_from_prev_new_swapped(self, previous) ==
    CASE const_cmp(self.count, previous.count) = "Less" ->
            Err([kind |-> "CountDecreased", prev |-> self.count, new |-> previous.count])
      [] const_cmp(self.count, previous.count) = "Greater" -> Ok(Unit)
      [] OTHER ->
            CASE const_cmp(self.roll, previous.roll) = "Less" ->
                    Err([kind |-> "SameCountLowerRoll", prev |-> self.roll, new |-> previous.roll])
              [] const_cmp(self.roll, previous.roll) = "Equal" ->
                    Err([kind |-> "SameBet", bet |-> self])
              [] OTHER -> Ok(Unit)

is_raised_from_equal_ok(self, previous) ==
    CASE const_cmp(self.count, previous.count) = "Less" ->
            Err([kind |-> "CountDecreased", prev |-> previous.count, new |-> self.count])
      [] const_cmp(self.count, previous.count) = "Greater" -> Ok(Unit)
      [] OTHER ->
            CASE const_cmp(self.roll, previous.roll) = "Less" ->
                    Err([kind |-> "SameCountLowerRoll", prev |-> previous.roll, new |-> self.roll])
              [] OTHER -> Ok(Unit)

is_raised_from(self, previous) ==
    CASE const_cmp(self.count, previous.count) = "Less" ->
            Err([kind |-> "CountDecreased", prev |-> previous.count, new |-> self.count])
      [] const_cmp(self.count, previous.count) = "Greater" -> Ok(Unit)
      [] OTHER ->
            CASE const_cmp(self.roll, previous.roll) = "Less" ->
                    Err([kind |-> "SameCountLowerRoll", prev |-> previous.roll, new |-> self.roll])
              [] const_cmp(self.roll, previous.roll) = "Equal" ->
                    Err([kind |-> "SameBet", bet |-> self])
              [] OTHER -> Ok(Unit)

raise(self, count, roll) ==
    LET new_bet == [count |-> count, roll |-> roll]
        r == is_raised_from(new_bet, self)
    IN  IF r.tag = "Ok" THEN Ok(new_bet) ELSE Err(r.err)

count_matches_no_wildcard(self, rolls) ==
    Len(SelectSeq(rolls, LAMBDA x : self.roll = x))

count_matches(self, rolls) ==
    Len(SelectSeq(rolls, LAMBDA x : self.roll = x \/ NONZERO_ONE = x))

is_fluff(self, rolls) == count_matches(self, rolls) < self.count


\* ------------------------------------------------- indexmap::IndexMap
\* An IndexMap is a sequence of entries [key, value] with distinct keys,
\* kept in insertion order; indices are 0-based as in the source.
Some(v) == [tag |-> "Some", val |-> v]

None == [tag |-> "None"]

Panic(msg) == [tag |-> "Panic", msg |-> msg]

get_index_of(map, key) ==
    LET hits == {i \in 1..Len(map) : map[i].key = key}
    IN  IF hits = {} THEN None
        ELSE Some((CHOOSE i \in hits : \A j \in hits : i <= j) - 1)

get_index(map, i) ==
    IF i >= 0 /\ i < Len(map) THEN Some(map[i + 1]) ELSE None

get_key_value(map, key) ==
    LET ix == get_index_of(map, key)
    IN  IF ix.tag = "None" THEN None ELSE get_index(map, ix.val)

first_is_last(map) == get_index(map, Len(map) - 1)

first(map) == get_index(map, 0)

RECURSIVE flat_values(_)
flat_values(map) ==
    IF map = <<>> THEN <<>>
    ELSE Head(map).value \o flat_values(Tail(map))

\* ---------------------------------------------------- src/game/state.rs
Called_loser_swapped(self) ==
    IF self.was_fluff THEN self.caller ELSE self.better

Called_loser(self) ==
    IF self.was_fluff THEN self.better ELSE self.caller

Called_winner_swapped(self) ==
    IF self.was_fluff THEN self.better ELSE self.caller

Called_winner(self) ==
    IF self.was_fluff THEN self.caller ELSE self.better

\* ---------------------------------------------------- src/game/round.rs
PlayerRolls_from(entry) == [player |-> entry.key, rolls |-> entry.value]

init_next_state_no_wrap(self, turn) ==
    LET ix == get_index_of(self.players_rolls, turn.player)
    IN  IF ix.tag = "None" THEN Panic("Current player should be in player rolls")
        ELSE LET n == Len(self.players_rolls)
                 next_player_index == IF ix.val + 1 < n THEN ix.val + 1 ELSE n - 1
                 e == get_index(self.players_rolls, next_player_index)
             IN  [tag |-> "Betting",
                  curr_player_rolls |-> PlayerRolls_from(e.val),
                  prev_bet |-> turn.bet]

init_next_state_stale_rolls(self, turn) ==
    LET ix == get_index_of(self.players_rolls, turn.player)
    IN  IF ix.tag = "None" THEN Panic("Current player should be in player rolls")
        ELSE LET next_player_index == (ix.val + 1) % Len(self.players_rolls)
                 e == get_index(self.players_rolls, next_player_index)
                 c == get_index(self.players_rolls, ix.val)
             IN  IF e.tag = "None"
                 THEN Panic("Next player index should be in player rolls")
                 ELSE [tag |-> "Betting",
                       curr_player_rolls |-> [player |-> e.val.key,
                                              rolls |-> c.val.value],
                       prev_bet |-> turn.bet]

init_next_state(self, turn) ==
    LET ix == get_index_of(self.players_rolls, turn.player)
    IN  IF ix.tag = "None" THEN Panic("Current player should be in player rolls")
        ELSE LET next_player_index == (ix.val + 1) % Len(self.players_rolls)
                 e == get_index(self.players_rolls, next_player_index)
             IN  IF e.tag = "None"
                 THEN Panic("Next player index should be in player rolls")
                 ELSE [tag |-> "Betting",
                       curr_player_rolls |-> PlayerRolls_from(e.val),
                       prev_bet |-> turn.bet]

\* dist.sample_iter(thread_rng()).take(dice_count).filter_map(NonZeroUsize::new):
\* rng[i] is the stream of draws made for the i-th entry of the table.
RECURSIVE roll_all(_, _, _)
roll_all(player_dice_counts, rng, i) ==
    IF i > Len(player_dice_counts) THEN <<>>
    ELSE LET e == player_dice_counts[i]
         IN  <<[key |-> e.key,
                value |-> SelectSeq(SubSeq(rng[i], 1, e.value), LAMBDA x : x # 0)]>>
             \o roll_all(player_dice_counts, rng, i + 1)

RECURSIVE roll_active_one_short(_, _, _)
roll_active_one_short(player_dice_counts, rng, i) ==
    IF i > Len(player_dice_counts) THEN <<>>
    ELSE LET e == player_dice_counts[i]
         IN  (IF 0 # e.value
              THEN <<[key |-> e.key,
                      value |-> SelectSeq(SubSeq(rng[i], 1, e.value - 1), LAMBDA x : x # 0)]>>
              ELSE <<>>)
             \o roll_active_one_short(player_dice_counts, rng, i + 1)

RECURSIVE roll_active(_, _, _)
roll_active(player_dice_counts, rng, i) ==
    IF i > Len(player_dice_counts) THEN <<>>
    ELSE LET e == player_dice_counts[i]
         IN  (IF 0 # e.value
              THEN <<[key |-> e.key,
                      value |-> SelectSeq(SubSeq(rng[i], 1, e.value), LAMBDA x : x # 0)]>>
              ELSE <<>>)
             \o roll_active(player_dice_counts, rng, i + 1)

Round_new(player_dice_counts, max_roll, rng) ==
    LET rolls == roll_active(player_dice_counts, rng, 1)
        f == first(rolls)
    IN  IF f.tag = "None" THEN Panic("Players rolls should not be empty")
        ELSE [tag |-> "Round",
              players_rolls |-> rolls,
              turns |-> <<>>,
              state_data |-> [tag |-> "NewRound",
                              first_player_rolls |-> PlayerRolls_from(f.val)]]

new_with_first_player_ignored(player_dice_counts, max_roll, first_player, rng) ==
    LET round == Round_new(player_dice_counts, max_roll, rng)
    IN  IF round.tag = "Panic" THEN round ELSE Ok(round)

new_with_first_player(player_dice_counts, max_roll, first_player, rng) ==
    LET round == Round_new(player_dice_counts, max_roll, rng)
    IN  IF round.tag = "Panic" THEN round
        ELSE LET kv == get_key_value(round.players_rolls, first_player)
             IN  IF kv.tag = "None" THEN Err("FirstPlayerNotInGivenPlayers")
                 ELSE Ok([round EXCEPT !.state_data.first_player_rolls =
                                            PlayerRolls_from(kv.val)])

Round_NewRound_raise_bet_no_turn(self, bet) ==
    LET turn == [player |-> self.state_data.first_player_rolls.player, bet |-> bet]
        state_data == init_next_state(self, turn)
    IN  IF state_data.tag = "Panic" THEN state_data
        ELSE [tag |-> "Round",
              players_rolls |-> self.players_rolls,
              turns |-> self.turns,
              state_data |-> state_data]

\* Round<NewRound>::raise_bet(self, bet) -> Round<Betting>
Round_NewRound_raise_bet(self, bet) ==
    LET turn == [player |-> self.state_data.first_player_rolls.player, bet |-> bet]
        state_data == init_next_state(self, turn)
    IN  IF state_data.tag = "Panic" THEN state_data
        ELSE [tag |-> "Round",
              players_rolls |-> self.players_rolls,
              turns |-> Append(self.turns, turn),
              state_data |-> state_data]

Round_is_fluff(self) ==
    is_fluff(self.state_data.prev_bet, flat_values(self.players_rolls))

\* Round<Betting>::raise_bet(&mut self, bet): the round after the call and
\* the value returned.
Round_Betting_raise_bet_push_first(self, bet) ==
    LET r == is_raised_from(bet, self.state_data.prev_bet)
        turn == [player |-> self.state_data.curr_player_rolls.player, bet |-> bet]
    IN  IF r.tag = "Err"
        THEN [round |-> [self EXCEPT !.turns = Append(self.turns, turn)], result |-> r]
        ELSE [round |-> [self EXCEPT !.state_data = init_next_state(self, turn),
                                     !.turns = Append(self.turns, turn)],
              result |-> Ok(Unit)]

Round_Betting_raise_bet(self, bet) ==
    LET r == is_raised_from(bet, self.state_data.prev_bet)
    IN  IF r.tag = "Err" THEN [round |-> self, result |-> r]
        ELSE LET turn == [player |-> self.state_data.curr_player_rolls.player,
                          bet |-> bet]
                 state_data == init_next_state(self, turn)
             IN  IF state_data.tag = "Panic"
                 THEN [round |-> self, result |-> state_data]
                 ELSE [round |-> [self EXCEPT !.state_data = state_data,
                                              !.turns = Append(self.turns, turn)],
                       result |-> Ok(Unit)]

Round_call_fluff(self) ==
    LET was_fluff == Round_is_fluff(self)
        caller == self.state_data.curr_player_rolls.player
    IN  IF self.turns = <<>>
        THEN Panic("There should be past rounds, otherwise this shouldn't be Betting")
        ELSE [tag |-> "Round",
              players_rolls |-> self.players_rolls,
              turns |-> self.turns,
              state_data |-> [tag |-> "Called",
                              caller |-> caller,
                              better |-> self.turns[Len(self.turns)].player,
                              was_fluff |-> was_fluff]]


\* ---------------------------------------------------------- src/game.rs
\* GameConfig::default()
DefaultMaxDice == 5

DefaultMaxRoll == 6

RECURSIVE collect_dice_counts_one_more(_, _)
collect_dice_counts_one_more(players, max_dice) ==
    IF players = <<>> THEN <<>>
    ELSE <<[key |-> Head(players), value |-> max_dice + 1]>>
         \o collect_dice_counts_one_more(Tail(players), max_dice)

RECURSIVE collect_dice_counts(_, _)
collect_dice_counts(players, max_dice) ==
    IF players = <<>> THEN <<>>
    ELSE <<[key |-> Head(players), value |-> max_dice]>>
         \o collect_dice_counts(Tail(players), max_dice)

\* Game::new(players, config) -> Game<InRound<NewRound>>
Game_new(players, config, rng) ==
    LET player_dice_counts == collect_dice_counts(players, config.max_dice)
        curr_round == Round_new(player_dice_counts, config.max_roll, rng)
    IN  IF curr_round.tag = "Panic" THEN curr_round
        ELSE [tag |-> "Game",
              player_dice_counts |-> player_dice_counts,
              config |-> config,
              round_history |-> <<>>,
              state_data |-> [tag |-> "InRound", curr_round |-> curr_round]]

Game_NewRound_raise_bet_drops_history(self, bet) ==
    LET curr_round == Round_NewRound_raise_bet(self.state_data.curr_round, bet)
    IN  IF curr_round.tag = "Panic" THEN curr_round
        ELSE [tag |-> "Game",
              player_dice_counts |-> self.player_dice_counts,
              config |-> self.config,
              round_history |-> <<>>,
              state_data |-> [tag |-> "InRound", curr_round |-> curr_round]]

\* Game<InRound<NewRound>>::raise_bet(self, bet) -> Game<InRound<Betting>>
Game_NewRound_raise_bet(self, bet) ==
    LET curr_round == Round_NewRound_raise_bet(self.state_data.curr_round, bet)
    IN  IF curr_round.tag = "Panic" THEN curr_round
        ELSE [tag |-> "Game",
              player_dice_counts |-> self.player_dice_counts,
              config |-> self.config,
              round_history |-> self.round_history,
              state_data |-> [tag |-> "InRound", curr_round |-> curr_round]]

\* Game<InRound<Betting>>::raise_bet(&mut self, bet): the game after the call
\* and the value returned.
Game_Betting_raise_bet(self, bet) ==
    LET r == Round_Betting_raise_bet(self.state_data.curr_round, bet)
    IN  [game |-> [self EXCEPT !.state_data.curr_round = r.round],
         result |-> r.result]

nonzero_count(player_dice_counts) ==
    Cardinality({i \in 1..Len(player_dice_counts) : player_dice_counts[i].value # 0})

\* Game<InRound<Betting>>::call_fluff(self) -> FluffCallTransition.  On a
\* failed expect() the record carries the locals as they stood at that point.
Game_call_fluff(self, rng) ==
    LET finished_round == Round_call_fluff(self.state_data.curr_round)
    IN  IF finished_round.tag = "Panic"
        THEN [tag |-> "Panic", msg |-> finished_round.msg, game |-> self]
        ELSE
        LET winner == Called_winner(finished_round.state_data)
            loser_ix == get_index_of(self.player_dice_counts,
                                     Called_loser(finished_round.state_data))
        IN  IF loser_ix.tag = "None"
            THEN [tag |-> "Panic",
                  msg |-> "This should be getting player dice counts at the loser",
                  game |-> self]
            ELSE IF self.player_dice_counts[loser_ix.val + 1].value = 0
            THEN [tag |-> "Panic", msg |-> "attempt to subtract with overflow",
                  game |-> self]
            ELSE
            LET player_dice_counts ==
                    [self.player_dice_counts EXCEPT ![loser_ix.val + 1].value = @ - 1]
                player_is_out == player_dice_counts[loser_ix.val + 1].value = 0
                config == self.config
                round_history == Append(self.round_history, finished_round)
            IN  IF player_is_out /\ nonzero_count(player_dice_counts) = 1
                THEN [tag |-> "GameOver",
                      game |-> [tag |-> "Game",
                                player_dice_counts |-> player_dice_counts,
                                config |-> config,
                                round_history |-> round_history,
                                state_data |-> [tag |-> "GameOver", winner |-> winner]]]
                ELSE
                LET new_round == new_with_first_player(player_dice_counts,
                                                       config.max_roll, winner, rng)
                IN  IF new_round.tag # "Ok"
                    THEN [tag |-> "Panic",
                          msg |-> IF new_round.tag = "Panic" THEN new_round.msg
                                  ELSE "Winner of previous round should be in player dice counts",
                          game |-> [tag |-> "Game",
                                    player_dice_counts |-> player_dice_counts,
                                    config |-> config,
                                    round_history |-> round_history,
                                    state_data |-> [tag |-> "Aborted"]]]
                    ELSE [tag |-> "NextRound",
                          game |-> [tag |-> "Game",
                                    player_dice_counts |-> player_dice_counts,
                                    config |-> config,
                                    round_history |-> round_history,
                                    state_data |-> [tag |-> "InRound",
                                                    curr_round |-> new_round.val]]]

\* ------------------------------------------------------------ the state
VARIABLES
    player_dice_counts,  \* Game.player_dice_counts
    config,              \* Game.config
    round_history,       \* Game.round_history
    state_data,          \* Game.state_data (InRound / GameOver)
    ret,                 \* the operation last called on the game and what it returned
    bet_self,            \* receiver of the last direct Bet call
    bet_previous,        \* argument of the last direct Bet call
    bet_ret              \* what the last direct Bet call returned

gameVars == <<player_dice_counts, config, round_history, state_data>>

betVars == <<bet_self, bet_previous, bet_ret>>

vars == <<player_dice_counts, config, round_history, state_data, ret,
          bet_self, bet_previous, bet_ret>>

TheGame ==
    [tag |-> "Game",
     player_dice_counts |-> player_dice_counts,
     config |-> config,
     round_history |-> round_history,
     state_data |-> state_data]

SetGame(g) ==
    /\ player_dice_counts' = g.player_dice_counts
    /\ config' = g.config
    /\ round_history' = g.round_history
    /\ state_data' = g.state_data

InNewRound ==
    /\ state_data.tag = "InRound"
    /\ state_data.curr_round.state_data.tag = "NewRound"

InBetting ==
    /\ state_data.tag = "InRound"
    /\ state_data.curr_round.state_data.tag = "Betting"

\* The bets a caller may pass and the draws the generator may make.
Bets == [count : 1..MaxBetCount, roll : 1..MaxBetRoll]

\* One stream per table entry, as long as the dice that entry holds.
RECURSIVE DrawsFrom(_, _, _)
DrawsFrom(dice_counts, max_roll, i) ==
    IF i > Len(dice_counts) THEN {<<>>}
    ELSE {<<s>> \o rest : s \in [1..dice_counts[i].value -> 1..max_roll],
                          rest \in DrawsFrom(dice_counts, max_roll, i + 1)}

Draws(dice_counts, max_roll) == DrawsFrom(dice_counts, max_roll, 1)

Configs == [max_dice : 1..MaxDice, max_roll : 1..MaxRoll]

NoBetCall == [op |-> "none"]

InitBetIdle ==
    /\ bet_self = Bet_new(1, 1)
    /\ bet_previous = Bet_new(1, 1)
    /\ bet_ret = NoBetCall

Init ==
    /\ \E n \in 1..MaxPlayers, c \in Configs :
          /\ n * c.max_dice <= MaxTotalDice
          /\ \E rng \in Draws(collect_dice_counts(SubSeq(Names, 1, n), c.max_dice),
                              c.max_roll) :
                LET g == Game_new(SubSeq(Names, 1, n), c, rng)
                IN  /\ player_dice_counts = g.player_dice_counts
                    /\ config = g.config
                    /\ round_history = g.round_history
                    /\ state_data = g.state_data
    /\ ret = [op |-> "new", result |-> [tag |-> "Game"]]
    /\ InitBetIdle

RaiseBetNewRound(bet) ==
    /\ InNewRound
    /\ Len(round_history) < MaxRounds
    /\ LET g == Game_NewRound_raise_bet(TheGame, bet)
       IN  IF g.tag = "Panic"
           THEN /\ state_data' = [tag |-> "Aborted"]
                /\ ret' = [op |-> "raise_bet", result |-> g]
                /\ UNCHANGED <<player_dice_counts, config, round_history>>
           ELSE /\ SetGame(g)
                /\ ret' = [op |-> "raise_bet", result |-> [tag |-> "Game"]]
    /\ UNCHANGED betVars

RaiseBetBetting(bet) ==
    /\ InBetting
    /\ Len(round_history) < MaxRounds
    /\ LET r == Game_Betting_raise_bet(TheGame, bet)
       IN  IF r.result.tag = "Panic"
           THEN /\ state_data' = [tag |-> "Aborted"]
                /\ ret' = [op |-> "raise_bet", result |-> r.result]
                /\ UNCHANGED <<player_dice_counts, config, round_history>>
           ELSE /\ SetGame(r.game)
                /\ ret' = [op |-> "raise_bet", result |-> r.result]
    /\ UNCHANGED betVars

CallFluff(rng) ==
    /\ InBetting
    /\ Len(round_history) < MaxRounds
    /\ LET t == Game_call_fluff(TheGame, rng)
       IN  /\ SetGame(t.game)
           /\ ret' = [op |-> "call_fluff",
                      result |-> IF t.tag = "Panic"
                                 THEN [tag |-> "Panic", msg |-> t.msg]
                                 ELSE [tag |-> t.tag]]
    /\ UNCHANGED betVars

Next ==
    \/ \E bet \in Bets : RaiseBetNewRound(bet)
    \/ \E bet \in Bets : RaiseBetBetting(bet)
    \/ \E rng \in Draws(player_dice_counts, config.max_roll) :
          CallFluff(rng)

Spec == Init /\ [][Next]_vars

\* Games played to their end: the players hold few enough dice for every
\* round of the game to be resolved, the players keep acting while an
\* operation is possible, and every round in the betting phase is eventually
\* challenged: call_fluff is the only operation that leaves that phase, so
\* the game is again and again outside it.
InitLive ==
    /\ Init
    /\ Len(player_dice_counts) * config.max_dice <= MaxRounds + 1

SpecLive ==
    /\ InitLive
    /\ [][Next]_vars
    /\ WF_vars(Next)
    /\ []<>(~InBetting)

\* ------------------------------------- one scripted game of two players
\* Game::new([Alice, Bob], GameConfig::default()), then raise_bet(2 3),
\* raise_bet(2 3), raise_bet(2 4), call_fluff().
ScenarioPlayers == <<"Alice", "Bob">>

ScenarioConfig == [max_dice |-> DefaultMaxDice, max_roll |-> DefaultMaxRoll]

\* Draws in which all the dice of one player show the same face.
ScenarioDraws(dice_counts, max_roll) ==
    {[i \in 1..Len(dice_counts) |-> [j \in 1..dice_counts[i].value |-> f[i]]] :
        f \in [1..Len(dice_counts) -> 1..max_roll]}

InitScenario ==
    /\ \E rng \in ScenarioDraws(collect_dice_counts(ScenarioPlayers,
                                                    ScenarioConfig.max_dice),
                                ScenarioConfig.max_roll) :
          LET g == Game_new(ScenarioPlayers, ScenarioConfig, rng)
          IN  /\ player_dice_counts = g.player_dice_counts
              /\ config = g.config
              /\ round_history = g.round_history
              /\ state_data = g.state_data
    /\ ret = [op |-> "new", result |-> [tag |-> "Game"]]
    /\ InitBetIdle

FirstBet ==
    /\ round_history = <<>>
    /\ RaiseBetNewRound(Bet_new(2, 3))

RepeatedBet ==
    /\ ret = [op |-> "raise_bet", result |-> [tag |-> "Game"]]
    /\ RaiseBetBetting(Bet_new(2, 3))

RaisedBet ==
    /\ ret.op = "raise_bet"
    /\ ret.result.tag = "Err"
    /\ RaiseBetBetting(Bet_new(2, 4))

Challenge ==
    /\ ret.op = "raise_bet"
    /\ ret.result.tag = "Ok"
    /\ \E rng \in ScenarioDraws(player_dice_counts, config.max_roll) : CallFluff(rng)

ScenarioNext ==
    \/ FirstBet
    \/ RepeatedBet
    \/ RaisedBet
    \/ Challenge

SpecScenario == InitScenario /\ [][ScenarioNext]_vars

\* ------------------------------------------- direct calls on Bet values
BetGrid == [count : 1..GridMax, roll : 1..GridMax]

InitBet ==
    /\ LET g == Game_new(<<Names[1]>>, [max_dice |-> 1, max_roll |-> 1],
                         [i \in 1..1 |-> <<1>>])
       IN  /\ player_dice_counts = g.player_dice_counts
           /\ config = g.config
           /\ round_history = g.round_history
           /\ state_data = g.state_data
    /\ ret = [op |-> "new", result |-> [tag |-> "Game"]]
    /\ bet_self \in BetGrid
    /\ bet_previous \in BetGrid
    /\ bet_ret = NoBetCall

CallIsRaisedFrom ==
    /\ bet_ret' = [op |-> "is_raised_from",
                   result |-> is_raised_from(bet_self, bet_previous)]
    /\ UNCHANGED <<gameVars, ret, bet_self, bet_previous>>

CallRaise ==
    /\ bet_ret' = [op |-> "raise",
                   result |-> raise(bet_previous, bet_self.count, bet_self.roll)]
    /\ UNCHANGED <<gameVars, ret, bet_self, bet_previous>>

NextBet == CallIsRaisedFrom \/ CallRaise

SpecBet == InitBet /\ [][NextBet]_vars


\* ------------------------------------------------- reading the state
CurrRound == state_data.curr_round

Last(seq) == seq[Len(seq)]

Keys(map) == [i \in 1..Len(map) |-> map[i].key]

\* 0-based position of a player in an ordered table.
PosOf(map, player) == (CHOOSE i \in 1..Len(map) : map[i].key = player) - 1

KeyAt(map, i) == map[i + 1].key

DueToAct(round) ==
    IF round.state_data.tag = "NewRound"
    THEN round.state_data.first_player_rolls
    ELSE round.state_data.curr_player_rolls

\* The dice of a round, as <<table position, die position>>.
DiceOf(round) ==
    UNION {{<<i, j>> : j \in 1..Len(round.players_rolls[i].value)} :
              i \in 1..Len(round.players_rolls)}

\* Dice over all roll sets of a round showing the face or the wildcard 1.
ShownCount(round, face) ==
    Cardinality({d \in DiceOf(round) :
                    round.players_rolls[d[1]].value[d[2]] \in {face, 1}})

ExactCount(round, face) ==
    Cardinality({d \in DiceOf(round) :
                    round.players_rolls[d[1]].value[d[2]] = face})

ActiveKeys(dice_counts) ==
    Keys(SelectSeq(dice_counts, LAMBDA e : e.value # 0))

RoundWinner(round) ==
    IF round.state_data.was_fluff
    THEN round.state_data.caller
    ELSE round.state_data.better

NonzeroPlayers == {i \in 1..Len(player_dice_counts) : player_dice_counts[i].value # 0}

\* ------------------------------------------------------------ claims

\* C1: a.is_raised_from(b) succeeds iff (a.count, a.roll) > (b.count, b.roll)
\* lexicographically, and Bet::raise returns the candidate bet in exactly
\* those cases (an error otherwise).
C1_RaisedIffLexGreater ==
    LET greater == \/ bet_self.count > bet_previous.count
                   \/ /\ bet_self.count = bet_previous.count
                      /\ bet_self.roll > bet_previous.roll
    IN  /\ bet_ret.op = "is_raised_from" => (bet_ret.result.tag = "Ok" <=> greater)
        /\ bet_ret.op = "raise" =>
              IF greater
              THEN bet_ret.result.tag = "Ok" /\ bet_ret.result.val = bet_self
              ELSE bet_ret.result.tag = "Err"

C1_Witness ==
    /\ bet_ret.op = "raise"
    /\ bet_ret.result.tag = "Ok"
    /\ bet_self.count = bet_previous.count
    /\ bet_self.roll > bet_previous.roll

\* C2: a rejected raise_bet on a betting-phase round changes nothing: turns,
\* previous bet, player due to act, rolls, dice counts and round history keep
\* their values.
C2_RejectedRaiseChangesNothing ==
    [][(ret'.op = "raise_bet" /\ ret'.result.tag = "Err") =>
          /\ state_data' = state_data
          /\ player_dice_counts' = player_dice_counts
          /\ round_history' = round_history
          /\ config' = config]_vars

C2_Witness ==
    /\ ret.op = "raise_bet"
    /\ ret.result.tag = "Err"
    /\ InBetting
    /\ Len(CurrRound.turns) >= 2
    /\ Len(round_history) >= 1

\* C3: in every resolved round was_fluff is true iff the dice of all roll
\* sets showing the last turn's bet face or the wildcard 1 number strictly
\* less than that bet's count.
C3_VerdictMatchesRolls ==
    \A k \in 1..Len(round_history) :
        LET r == round_history[k]
            b == Last(r.turns).bet
        IN  r.state_data.was_fluff <=> (ShownCount(r, b.roll) < b.count)

C3_Witness ==
    \E k \in 1..Len(round_history) :
        LET r == round_history[k]
            b == Last(r.turns).bet
        IN  /\ ~r.state_data.was_fluff
            /\ b.roll # 1
            /\ ExactCount(r, b.roll) < b.count
            /\ Len(r.players_rolls) >= 2

\* C4: every call_fluff lowers exactly the loser's dice count, by exactly
\* one (the loser is the better when was_fluff, the caller otherwise), and
\* leaves every other dice count and the config unchanged.
C4_CallFluffDecrementsLoser ==
    [][ret'.op = "call_fluff" =>
          LET r == Last(round_history')
              better == Last(r.turns).player
              loser == IF r.state_data.was_fluff THEN better ELSE r.state_data.caller
          IN  /\ Len(round_history') = Len(round_history) + 1
              /\ Keys(player_dice_counts') = Keys(player_dice_counts)
              /\ \A i \in 1..Len(player_dice_counts) :
                    player_dice_counts'[i].value =
                        IF player_dice_counts[i].key = loser
                        THEN player_dice_counts[i].value - 1
                        ELSE player_dice_counts[i].value
              /\ Cardinality({i \in 1..Len(player_dice_counts) :
                                 player_dice_counts'[i] # player_dice_counts[i]}) = 1
              /\ config' = config]_vars

C4_Witness ==
    /\ ret.op = "call_fluff"
    /\ Len(player_dice_counts) >= 2
    /\ Len(round_history) = 2
    /\ round_history[1].state_data.was_fluff
    /\ ~round_history[2].state_data.was_fluff

\* C5: call_fluff returns the game-over variant iff exactly one player has a
\* nonzero dice count after the decrement, and the next-round variant in
\* every other case.
C5_GameOverIffOneLeft ==
    ret.op = "call_fluff" =>
        IF Cardinality(NonzeroPlayers) = 1
        THEN ret.result.tag = "GameOver"
        ELSE ret.result.tag = "NextRound"

\* C6: in every game-over state the recorded winner is the only player with
\* a nonzero dice count.
C6_WinnerIsSoleSurvivor ==
    state_data.tag = "GameOver" =>
        \A i \in 1..Len(player_dice_counts) :
            (player_dice_counts[i].value # 0) <=>
                (player_dice_counts[i].key = state_data.winner)

C6_Witness ==
    /\ state_data.tag = "GameOver"
    /\ Len(player_dice_counts) = 3
    /\ state_data.winner = player_dice_counts[2].key

\* C7: with n players in the round's table and the first actor at index f,
\* the k-th accepted bet (k = 0, 1, ...) is recorded for the player at index
\* (f + k) mod n, after it the player at index (f + k + 1) mod n is due to
\* act, and a rejected raise does not advance the turn.
C7_TurnOrderCycles ==
    [][/\ (InNewRound /\ ret'.op = "raise_bet") =>
             LET r == CurrRound
                 n == Len(r.players_rolls)
                 f == PosOf(r.players_rolls, r.state_data.first_player_rolls.player)
                 q == state_data'.curr_round
             IN  /\ Len(q.turns) = 1
                 /\ q.turns[1].player = KeyAt(r.players_rolls, f % n)
                 /\ DueToAct(q).player = KeyAt(r.players_rolls, (f + 1) % n)
       /\ (InBetting /\ ret'.op = "raise_bet" /\ ret'.result.tag = "Ok") =>
             LET r == CurrRound
                 n == Len(r.players_rolls)
                 f == PosOf(r.players_rolls, r.turns[1].player)
                 k == Len(r.turns)
                 q == state_data'.curr_round
             IN  /\ Len(q.turns) = k + 1
                 /\ SubSeq(q.turns, 1, k) = r.turns
                 /\ q.turns[k + 1].player = KeyAt(r.players_rolls, (f + k) % n)
                 /\ DueToAct(q).player = KeyAt(r.players_rolls, (f + k + 1) % n)
       /\ (InBetting /\ ret'.op = "raise_bet" /\ ret'.result.tag = "Err") =>
             /\ DueToAct(state_data'.curr_round) = DueToAct(CurrRound)
             /\ state_data'.curr_round.turns = CurrRound.turns]_vars

C7_Witness ==
    /\ InBetting
    /\ Len(round_history) = 1
    /\ Len(CurrRound.players_rolls) = 2
    /\ Len(CurrRound.turns) = 3
    /\ CurrRound.turns[1].player = KeyAt(CurrRound.players_rolls, 1)
    /\ CurrRound.turns[3].player = KeyAt(CurrRound.players_rolls, 1)
    /\ DueToAct(CurrRound).player = KeyAt(CurrRound.players_rolls, 0)

\* C8: in every resolved round the caller is a different player from the
\* better (the player of the most recent turn).
C8_CallerIsNotBetter ==
    \A k \in 1..Len(round_history) :
        /\ round_history[k].state_data.better = Last(round_history[k].turns).player
        /\ round_history[k].state_data.caller # round_history[k].state_data.better

\* C9: after call_fluff returns the next-round variant, the player due to
\* act first in the new round is the winner of the round just resolved, and
\* the round's first accepted bet is recorded for that player.
C9_WinnerActsFirst ==
    (state_data.tag = "InRound" /\ Len(round_history) >= 1) =>
        LET w == RoundWinner(Last(round_history))
        IN  /\ InNewRound => CurrRound.state_data.first_player_rolls.player = w
            /\ InBetting => CurrRound.turns[1].player = w

C9_Witness ==
    /\ InBetting
    /\ Len(round_history) = 1
    /\ Len(player_dice_counts) = 3
    /\ CurrRound.turns[1].player = player_dice_counts[3].key
    /\ Last(round_history).state_data.was_fluff


\* C10: the players_rolls of every round holds exactly the players whose
\* dice count was nonzero when the round was created, in the order of
\* player_dice_counts (a player at zero dice is in no later round), and
\* neither raise_bet nor call_fluff changes its keys, order or roll sets.
C10_RollsTableIsActivePlayers ==
    /\ [](state_data.tag = "InRound" =>
             Keys(CurrRound.players_rolls) = ActiveKeys(player_dice_counts))
    /\ [][/\ (ret'.op = "raise_bet" /\ state_data'.tag = "InRound") =>
                state_data'.curr_round.players_rolls = CurrRound.players_rolls
          /\ ret'.op = "call_fluff" =>
                /\ Last(round_history').players_rolls = CurrRound.players_rolls
                /\ SubSeq(round_history', 1, Len(round_history)) = round_history]_vars

C10_Witness ==
    /\ InBetting
    /\ Len(round_history) = 1
    /\ Len(player_dice_counts) = 3
    /\ Len(CurrRound.players_rolls) = 2
    /\ player_dice_counts[2].value = 0
    /\ Len(CurrRound.turns) >= 2


\* C11: every reachable raise_bet and call_fluff of a game created from a
\* nonempty set of distinct players completes: no expect() fails (a round is
\* never created with no active player) and no dice count is taken below zero.
C11_NoOperationAborts ==
    /\ ret.result.tag # "Panic"
    /\ state_data.tag # "Aborted"
    /\ \A i \in 1..Len(player_dice_counts) : player_dice_counts[i].value >= 0

\* C12: after every challenge resolution the resolved round's winner holds a
\* nonzero dice count, so seeding the next round with that winner never fails
\* with FirstPlayerNotInGivenPlayers.
C12_WinnerStaysActive ==
    ret.op = "call_fluff" =>
        LET w == RoundWinner(Last(round_history))
        IN  /\ \E i \in 1..Len(player_dice_counts) :
                  /\ player_dice_counts[i].key = w
                  /\ player_dice_counts[i].value # 0
            /\ ~(/\ ret.result.tag = "Panic"
                 /\ ret.result.msg =
                        "Winner of previous round should be in player dice counts")


\* C13: a rejected raise reports exactly one sub-rule, fixed by the inputs:
\* CountDecreased{prev = previous.count, new = count} iff count <
\* previous.count; SameBet iff count and roll both equal the previous bet's;
\* SameCountLowerRoll{prev = previous.roll, new = roll} iff the counts are
\* equal and roll < previous.roll.
C13_RejectionNamesTheRule ==
    bet_ret.op \in {"is_raised_from", "raise"} =>
        LET res == bet_ret.result
            kind == IF res.tag = "Err" THEN res.err.kind ELSE "none"
        IN  /\ res.tag \in {"Ok", "Err"}
            /\ kind \in {"none", "CountDecreased", "SameBet", "SameCountLowerRoll"}
            /\ (kind = "CountDecreased") <=> (bet_self.count < bet_previous.count)
            /\ kind = "CountDecreased" =>
                  /\ res.err.prev = bet_previous.count
                  /\ res.err.new = bet_self.count
            /\ (kind = "SameBet") <=>
                  (bet_self.count = bet_previous.count /\ bet_self.roll = bet_previous.roll)
            /\ kind = "SameBet" => res.err.bet = bet_self
            /\ (kind = "SameCountLowerRoll") <=>
                  (bet_self.count = bet_previous.count /\ bet_self.roll < bet_previous.roll)
            /\ kind = "SameCountLowerRoll" =>
                  /\ res.err.prev = bet_previous.roll
                  /\ res.err.new = bet_self.roll

C13_Witness ==
    /\ bet_ret.op = "is_raised_from"
    /\ bet_ret.result.tag = "Err"
    /\ bet_ret.result.err.kind = "CountDecreased"
    /\ bet_self.roll > bet_previous.roll
    /\ bet_ret.result.err.prev = 3
    /\ bet_ret.result.err.new = 1


\* C14: the first raise of a fresh round is accepted for every bet, with no
\* comparison and no bound against max_roll or the dice in play: the round
\* moves to the betting phase with exactly one turn, recorded for the round's
\* first actor, with that bet as the stored previous bet and the cyclic
\* successor of the first actor due to act.
C14_FirstRaiseAlwaysAccepted ==
    /\ [](InNewRound =>
            \A bet \in Bets :
                LET g == Game_NewRound_raise_bet(TheGame, bet)
                IN  /\ g.tag = "Game"
                    /\ g.state_data.tag = "InRound"
                    /\ g.state_data.curr_round.state_data.tag = "Betting"
                    /\ g.state_data.curr_round.state_data.prev_bet = bet
                    /\ g.state_data.curr_round.turns =
                           <<[player |-> DueToAct(CurrRound).player, bet |-> bet]>>)
    /\ [][InNewRound =>
            LET rolls == CurrRound.players_rolls
                actor == DueToAct(CurrRound).player
                succ  == (PosOf(rolls, actor) + 1) % Len(rolls)
            IN  /\ ret' = [op |-> "raise_bet", result |-> [tag |-> "Game"]]
                /\ InBetting'
                /\ Len(CurrRound'.turns) = 1
                /\ CurrRound'.turns[1].player = actor
                /\ CurrRound'.turns[1].bet \in Bets
                /\ CurrRound'.state_data.prev_bet = CurrRound'.turns[1].bet
                /\ CurrRound'.state_data.curr_player_rolls =
                       [player |-> KeyAt(rolls, succ), rolls |-> rolls[succ + 1].value]
                /\ CurrRound'.players_rolls = rolls
                /\ UNCHANGED <<player_dice_counts, config, round_history>>]_vars

C14_Witness ==
    /\ InBetting
    /\ ret = [op |-> "raise_bet", result |-> [tag |-> "Game"]]
    /\ Len(CurrRound.turns) = 1
    /\ Len(CurrRound.players_rolls) >= 2
    /\ Len(round_history) = 1
    /\ CurrRound.turns[1].player = Last(Keys(CurrRound.players_rolls))
    /\ CurrRound.state_data.curr_player_rolls.player = CurrRound.players_rolls[1].key
    /\ CurrRound.turns[1].bet.roll > config.max_roll
    /\ CurrRound.turns[1].bet.count > Len(Last(CurrRound.players_rolls).value)


\* C15: Game::new on a nonempty set of distinct players yields a game in
\* which every player's dice count equals config.max_dice, round_history is
\* empty, and the current round is fresh with no turns, contains every
\* player, and has the first player in table order due to act.
C15_NewGameIsFresh ==
    ret.op = "new" =>
        /\ ret.result.tag = "Game"
        /\ Len(player_dice_counts) >= 1
        /\ Keys(player_dice_counts) = SubSeq(Names, 1, Len(player_dice_counts))
        /\ \A i \in 1..Len(player_dice_counts) :
              player_dice_counts[i].value = config.max_dice
        /\ round_history = <<>>
        /\ InNewRound
        /\ CurrRound.turns = <<>>
        /\ Keys(CurrRound.players_rolls) = Keys(player_dice_counts)
        /\ DueToAct(CurrRound).player = player_dice_counts[1].key
        /\ DueToAct(CurrRound).rolls = CurrRound.players_rolls[1].value

C15_Witness ==
    /\ ret.op = "new"
    /\ Len(player_dice_counts) = 2
    /\ config.max_dice = 2
    /\ InNewRound
    /\ CurrRound.players_rolls[1].value # CurrRound.players_rolls[2].value


\* C16: in every round of a game, each player's roll set has exactly as many
\* dice as that player's count in player_dice_counts while the round is in
\* progress, and every die value lies in 1..max_roll.
C16_RollSetsMatchDiceCounts ==
    /\ state_data.tag = "InRound" =>
          \A i \in 1..Len(CurrRound.players_rolls) :
              LET e == CurrRound.players_rolls[i]
              IN  /\ \E k \in 1..Len(player_dice_counts) :
                        /\ player_dice_counts[k].key = e.key
                        /\ player_dice_counts[k].value = Len(e.value)
                  /\ \A j \in 1..Len(e.value) : e.value[j] \in 1..config.max_roll
    /\ \A h \in 1..Len(round_history) :
          \A i \in 1..Len(round_history[h].players_rolls) :
              LET e == round_history[h].players_rolls[i]
              IN  /\ Len(e.value) \in 1..config.max_dice
                  /\ \A j \in 1..Len(e.value) : e.value[j] \in 1..config.max_roll

C16_Witness ==
    /\ state_data.tag = "InRound"
    /\ Len(round_history) = 1
    /\ Len(CurrRound.players_rolls) = 2
    /\ Len(CurrRound.players_rolls[1].value) = 2
    /\ Len(CurrRound.players_rolls[2].value) = 1
    /\ CurrRound.players_rolls[1].value = <<1, 2>>


\* C17: is_raised_from is a strict total order on bets: for any two distinct
\* bets a and b exactly one of a.is_raised_from(b) and b.is_raised_from(a)
\* succeeds, a.is_raised_from(a) always fails with SameBet, and the relation
\* is transitive.
C17_StrictTotalOrder ==
    bet_ret.op = "is_raised_from" =>
        LET a == bet_self
            b == bet_previous
            ab == bet_ret.result.tag = "Ok"
            ba == is_raised_from(b, a).tag = "Ok"
        IN  /\ bet_ret.result.tag \in {"Ok", "Err"}
            /\ a # b => (ab <=> ~ba)
            /\ a = b => /\ bet_ret.result.tag = "Err"
                        /\ bet_ret.result.err = [kind |-> "SameBet", bet |-> a]
            /\ \A c \in BetGrid :
                  (ab /\ is_raised_from(b, c).tag = "Ok") =>
                      is_raised_from(a, c).tag = "Ok"

C17_Witness ==
    /\ bet_ret.op = "is_raised_from"
    /\ bet_ret.result.tag = "Ok"
    /\ bet_self.count > bet_previous.count
    /\ bet_self.roll < bet_previous.roll
    /\ \E c \in BetGrid :
          /\ c.count = bet_previous.count
          /\ c.roll > bet_self.roll
          /\ is_raised_from(bet_previous, c).tag = "Ok"


\* C18: if every round in the betting phase is eventually challenged, every
\* game created from a nonempty set of distinct players eventually reaches
\* the game-over phase, after which no further transition exists.
C18_EventuallyGameOver ==
    <>[](state_data.tag = "GameOver")


\* The state after the challenge of the scripted game: the round is resolved
\* with the given caller, the loser's count went from 5 to 4, the other
\* player keeps 5, and a new round begins with the round's winner acting first.
ScenarioResolved(caller) ==
    LET h == Last(round_history)
        loser == Called_loser(h.state_data)
        winner == RoundWinner(h)
    IN  /\ ret = [op |-> "call_fluff", result |-> [tag |-> "NextRound"]]
        /\ Len(round_history) = 1
        /\ h.turns = <<[player |-> "Alice", bet |-> Bet_new(2, 3)],
                       [player |-> "Bob", bet |-> Bet_new(2, 4)]>>
        /\ h.state_data.caller = caller
        /\ h.state_data.better = "Bob"
        /\ \A i \in 1..Len(h.players_rolls) : Len(h.players_rolls[i].value) = 5
        /\ Keys(player_dice_counts) = ScenarioPlayers
        /\ \A i \in 1..2 :
              player_dice_counts[i].value =
                  IF player_dice_counts[i].key = loser THEN 4 ELSE 5
        /\ InNewRound
        /\ CurrRound.turns = <<>>
        /\ DueToAct(CurrRound).player = winner

\* C19 as stated: in the game of [Alice, Bob] with max_dice = 5 and
\* max_roll = 6, Alice bets (2,3), Bob's (2,3) is rejected as identical,
\* Bob's (2,4) is accepted, then Bob is the player who calls fluff; the round
\* resolves, the loser goes from 5 dice to 4 and a new round begins with the
\* round's winner acting first.
C19_BobCallsFluff ==
    ret.op = "call_fluff" => ScenarioResolved("Bob")

\* C19, amended: the same trace, in which the player who calls fluff is
\* Alice, the player due to act after Bob's accepted bet.
C19_AliceCallsFluff ==
    /\ ret.op = "new" => /\ InNewRound
                         /\ DueToAct(CurrRound).player = "Alice"
                         /\ \A i \in 1..2 : player_dice_counts[i].value = 5
    /\ (ret.op = "raise_bet" /\ ret.result.tag = "Game") =>
          /\ CurrRound.turns = <<[player |-> "Alice", bet |-> Bet_new(2, 3)]>>
          /\ DueToAct(CurrRound).player = "Bob"
    /\ (ret.op = "raise_bet" /\ ret.result.tag = "Err") =>
          /\ ret.result.err = [kind |-> "SameBet", bet |-> Bet_new(2, 3)]
          /\ CurrRound.turns = <<[player |-> "Alice", bet |-> Bet_new(2, 3)]>>
          /\ CurrRound.state_data.prev_bet = Bet_new(2, 3)
          /\ DueToAct(CurrRound).player = "Bob"
    /\ (ret.op = "raise_bet" /\ ret.result.tag = "Ok") =>
          /\ CurrRound.turns = <<[player |-> "Alice", bet |-> Bet_new(2, 3)],
                                 [player |-> "Bob", bet |-> Bet_new(2, 4)]>>
          /\ CurrRound.state_data.prev_bet = Bet_new(2, 4)
          /\ DueToAct(CurrRound).player = "Alice"
          /\ \A i \in 1..2 : player_dice_counts[i].value = 5
    /\ ret.op = "call_fluff" => ScenarioResolved("Alice")

C19_Witness ==
    /\ ScenarioResolved("Alice")
    /\ Last(round_history).state_data.was_fluff
    /\ player_dice_counts = <<[key |-> "Alice", value |-> 5], [key |-> "Bob", value |-> 4]>>
    /\ DueToAct(CurrRound).player = "Alice"
    /\ Len(CurrRound.players_rolls[2].value) = 4


\* C21: in every reachable betting-phase round the turn history is nonempty,
\* the stored previous bet equals the bet of the last turn, the player due to
\* act is the cyclic successor (in players_rolls order) of the last turn's
\* player, and the roll set shown for the player due to act equals that
\* player's entry in players_rolls; hence call_fluff is never resolved on a
\* round with no bet.
C21_BettingRoundIsConsistent ==
    /\ InBetting =>
          LET rolls == CurrRound.players_rolls
              due == CurrRound.state_data.curr_player_rolls
          IN  /\ CurrRound.turns # <<>>
              /\ CurrRound.state_data.prev_bet = Last(CurrRound.turns).bet
              /\ \E i \in 1..Len(rolls) : rolls[i].key = Last(CurrRound.turns).player
              /\ due.player =
                     KeyAt(rolls, (PosOf(rolls, Last(CurrRound.turns).player) + 1)
                                      % Len(rolls))
              /\ due.rolls = rolls[PosOf(rolls, due.player) + 1].value
    /\ ~(/\ ret.result.tag = "Panic"
         /\ ret.result.msg =
                "There should be past rounds, otherwise this shouldn't be Betting")
    /\ \A h \in 1..Len(round_history) : round_history[h].turns # <<>>

C21_Witness ==
    /\ InBetting
    /\ Len(round_history) = 1
    /\ Len(CurrRound.players_rolls) = 2
    /\ Len(CurrRound.turns) = 2
    /\ CurrRound.players_rolls[1].value # CurrRound.players_rolls[2].value
    /\ CurrRound.state_data.curr_player_rolls.player = CurrRound.players_rolls[2].key
    /\ Last(CurrRound.turns).player = CurrRound.players_rolls[1].key


\* C22: round_history is append-only and changes only at challenge
\* resolution: each call_fluff appends exactly one resolved round, the one
\* just challenged, and leaves all earlier entries unchanged, while every
\* raise_bet, accepted or rejected, from either phase, leaves round_history,
\* player_dice_counts and config unchanged; so the history length equals the
\* number of challenges made.
C22_HistoryIsAppendOnly ==
    /\ [](ret.op = "new" => round_history = <<>>)
    /\ [][/\ ret'.op \in {"raise_bet", "call_fluff"}
          /\ ret'.op = "call_fluff" =>
                /\ InBetting
                /\ Len(round_history') = Len(round_history) + 1
                /\ SubSeq(round_history', 1, Len(round_history)) = round_history
                /\ Last(round_history').players_rolls = CurrRound.players_rolls
                /\ Last(round_history').turns = CurrRound.turns
                /\ Last(round_history').state_data.tag = "Called"
                /\ Last(round_history').state_data.caller =
                       CurrRound.state_data.curr_player_rolls.player
          /\ ret'.op = "raise_bet" =>
                /\ round_history' = round_history
                /\ player_dice_counts' = player_dice_counts
                /\ config' = config]_vars

C22_Witness ==
    /\ ret.op = "raise_bet"
    /\ ret.result.tag = "Err"
    /\ Len(round_history) = 1
    /\ Len(round_history[1].turns) = 2
    /\ Len(CurrRound.turns) = 2
    /\ \E i \in 1..Len(player_dice_counts) :
          player_dice_counts[i].value = config.max_dice - 1


LexLess(a, b) == a.count < b.count \/ (a.count = b.count /\ a.roll < b.roll)

StrictlyIncreasing(turns) ==
    /\ \A i \in 1..(Len(turns) - 1) : LexLess(turns[i].bet, turns[i + 1].bet)
    /\ \A i, j \in 1..Len(turns) : i # j => turns[i].bet # turns[j].bet
    /\ \A i \in 1..Len(turns) :
          turns[i].bet = turns[Len(turns)].bet \/ LexLess(turns[i].bet, turns[Len(turns)].bet)

\* C23: in every round, current or resolved, the bets of consecutive turns
\* are strictly increasing in the lexicographic (count, roll) order, so no
\* bet appears twice in a round and the last turn's bet is the maximum of the
\* round.
C23_BetsStrictlyIncrease ==
    /\ state_data.tag = "InRound" => StrictlyIncreasing(CurrRound.turns)
    /\ \A h \in 1..Len(round_history) : StrictlyIncreasing(round_history[h].turns)

C23_Witness ==
    /\ InBetting
    /\ ret.op = "raise_bet"
    /\ ret.result.tag = "Err"
    /\ Len(round_history) = 1
    /\ Len(round_history[1].turns) = 3
    /\ Len(CurrRound.turns) = 4


RECURSIVE SumOfCounts(_)
SumOfCounts(dice_counts) ==
    IF dice_counts = <<>> THEN 0
    ELSE Head(dice_counts).value + SumOfCounts(Tail(dice_counts))

\* C24: in every reachable game state the sum of all players' dice counts
\* equals (number of players x max_dice) minus the length of round_history,
\* every dice count lies in 0..max_dice, and no dice count ever increases.
C24_DiceAreConserved ==
    /\ [](/\ SumOfCounts(player_dice_counts) =
                Len(player_dice_counts) * config.max_dice - Len(round_history)
          /\ \A i \in 1..Len(player_dice_counts) :
                player_dice_counts[i].value \in 0..config.max_dice)
    /\ [][/\ Keys(player_dice_counts') = Keys(player_dice_counts)
          /\ \A i \in 1..Len(player_dice_counts) :
                player_dice_counts'[i].value <= player_dice_counts[i].value]_vars

C24_Witness ==
    /\ state_data.tag = "GameOver"
    /\ Len(round_history) = 2
    /\ Len(player_dice_counts) = 3
    /\ player_dice_counts[1].value = 0
    /\ player_dice_counts[2].value = 1
    /\ player_dice_counts[3].value = 0

====
